---- MODULE Spec2Model ----
(***************************************************************************)
(* Model of the element inspector agent (src/src/inspector-script.ts):     *)
(* the module-level inspector state, the DOM pieces it touches (class      *)
(* lists, the injected style element, the listeners registered on the      *)
(* document and the window), the events the page dispatches to it and the  *)
(* messages it posts to the parent window.                                 *)
(***************************************************************************)
EXTENDS Integers, Sequences, FiniteSets, TLC

\* ------------------------------------------------------------------ bounds
\* Messages posted to the parent window that the host has not yet consumed.
MaxInFlight == 2

\* Immediate child elements of an element handed to the snapshot helpers.
MaxChildren == 2

\* Nesting depth of the member expressions handed to the pass.
MaxPathDepth == 2

\* Number of times the pass visits the same element.
MaxRuns == 2

\* The serialized markup of such an element is within MarkupSlack
\* characters of the display limit.
MarkupSlack == 3

\* --------------------------------------------------------------- the page
NULL == "null"

\* document.documentElement, document.body and three elements of the page.
Root == "html"
Body == "body"
Elements == {"html", "body", "e1", "e2", "e3"}

\* Event targets: an element, or no target at all.
Targets == Elements \cup {NULL}

parentElement ==
  [e \in Elements |->
     CASE e = "html" -> NULL
       [] e = "body" -> "html"
       [] e = "e1"   -> "body"
       [] e = "e2"   -> "e1"
       [] e = "e3"   -> "e1"]

\* The element children of each element, in document order.
children ==
  [e \in Elements |->
     CASE e = "html" -> <<"body">>
       [] e = "body" -> <<"e1">>
       [] e = "e1"   -> <<"e2", "e3">>
       [] OTHER      -> <<>>]

tagName ==
  [e \in Elements |->
     CASE e = "html" -> "HTML"
       [] e = "body" -> "BODY"
       [] e = "e1"   -> "DIV"
       [] OTHER      -> "P"]

elementId == [e \in Elements |-> IF e = "e1" THEN "app" ELSE ""]

\* The classes the page itself gives its elements (before any activation).
pageClasses ==
  [e \in Elements |->
     CASE e = "e2" -> <<"card">>
       [] e = "e3" -> <<"inspector-panel", "btn">>
       [] OTHER    -> <<>>]

toLowerCase(tag) ==
  CASE tag = "HTML"   -> "html"
    [] tag = "BODY"   -> "body"
    [] tag = "DIV"    -> "div"
    [] tag = "P"      -> "p"
    [] tag = "STRONG" -> "strong"
    [] tag = "BR"     -> "br"
    [] tag = "A"      -> "a"
    [] tag = "svg"    -> "svg"

\* The class names the inspector uses.
ACTIVE_CLASS    == "inspector-active"
HIGHLIGHT_CLASS == "inspector-highlight"
SELECTED_CLASS  == "inspector-selected"

\* c.startsWith('inspector-'), over the class names that occur in the page.
startsWithInspector(c) ==
  c \in {"inspector-active", "inspector-highlight", "inspector-selected",
         "inspector-panel"}

\* --------------------------------------------------------- DOM primitives
Range(s) == {s[i] : i \in 1..Len(s)}

\* DOMTokenList.add: appends the token unless it is already present.
classListAdd(cl, c) == IF c \in Range(cl) THEN cl ELSE Append(cl, c)

\* DOMTokenList.remove: removes the token.
classListRemove(cl, c) == SelectSeq(cl, LAMBDA x : x # c)

\* EventTarget.addEventListener: a (type, callback, capture) triple already
\* in the listener list is not added again.
addEventListener(ls, type) == ls \cup {type}

removeEventListener(ls, type) == ls \ {type}

\* ------------------------------------------------------------ ElementInfo
\* index of the element among its previous siblings of the same nodeName.
siblingIndex(e) ==
  LET p    == parentElement[e]
      sibs == IF p = NULL THEN <<e>> ELSE children[p]
      pos  == CHOOSE i \in 1..Len(sibs) : sibs[i] = e
  IN  1 + Cardinality({i \in 1..(pos - 1) : tagName[sibs[i]] = tagName[e]})

RECURSIVE xpathParts(_)
xpathParts(current) ==
  IF current = NULL THEN <<>>
  ELSE LET tag  == toLowerCase(tagName[current])
           idx  == siblingIndex(current)
           part == IF idx > 1 THEN <<tag, idx>> ELSE <<tag>>
       IN  Append(xpathParts(parentElement[current]), part)

\* The XPath as its list of parts (the code joins them with '/').
getElementXPath(element) ==
  IF elementId[element] # ""
  THEN <<"//*[@id=", elementId[element]>>
  ELSE xpathParts(element)

\* ------------------------------------------------------ snapshot helpers
\* Strings whose characters matter are sequences of one-character strings.
Whitespace == {" ", "\n", "\t"}

RECURSIVE trimStart(_)
trimStart(str) ==
  IF str # <<>> /\ Head(str) \in Whitespace THEN trimStart(Tail(str)) ELSE str

RECURSIVE trimEnd(_)
trimEnd(str) ==
  IF str # <<>> /\ str[Len(str)] \in Whitespace
  THEN trimEnd(SubSeq(str, 1, Len(str) - 1))
  ELSE str

\* String.prototype.trim
trim(str) == trimEnd(trimStart(str))

\* The tags hasEditableText accepts among the immediate children.
INLINE_TAGS == {"span", "strong", "em", "b", "i", "u", "a", "br"}

\* html.length > DISPLAY_LIMIT is truncated to DISPLAY_LIMIT characters.
DISPLAY_LIMIT == 200

\* A string of n characters (the digits of the positions).
markup(n) == [i \in 1..n |-> ToString(i % 10)]

\* Faulty variant: only the primary attribute name is looked up.
hasEditableText_PrimaryOnly(element) ==
  /\ "data-source-file" \in element.attributeNames
  /\ trim(element.textContent) # <<>>
  /\ ~ \E i \in 1..Len(element.childTags) :
         toLowerCase(element.childTags[i]) \notin INLINE_TAGS

\* hasEditableText: the element has source attributes, text, and no complex
\* children.
hasEditableText(element) ==
  LET hasSource == \/ "data-source-file" \in element.attributeNames
                   \/ "data-astro-source-file" \in element.attributeNames
      text == trim(element.textContent)
      hasComplexChildren ==
        \E i \in 1..Len(element.childTags) :
          toLowerCase(element.childTags[i]) \notin INLINE_TAGS
  IN  IF ~hasSource THEN FALSE
      ELSE IF text = <<>> THEN FALSE
      ELSE IF hasComplexChildren THEN FALSE
      ELSE TRUE

\* createElementDisplayText: the markup of the element alone, truncated.
createElementDisplayText(element) ==
  LET html == element.outerHTML
  IN  IF Len(html) > DISPLAY_LIMIT
      THEN SubSeq(html, 1, DISPLAY_LIMIT) \o <<".", ".", ".">>
      ELSE html

\* The elements handed to the snapshot helpers: which source attributes they
\* carry, their textContent, the tagName of their immediate child elements
\* and the outerHTML of their shallow clone.
RECURSIVE SeqsUpTo(_, _)
SeqsUpTo(S, n) ==
  IF n = 0 THEN {<<>>}
  ELSE SeqsUpTo(S, n - 1)
         \cup {Append(q, x) : q \in {r \in SeqsUpTo(S, n - 1) : Len(r) = n - 1},
                              x \in S}

MarkupLengths == (DISPLAY_LIMIT - MarkupSlack)..(DISPLAY_LIMIT + MarkupSlack)

Probes ==
  [ attributeNames : SUBSET {"data-source-file", "data-astro-source-file"},
    textContent    : {<<>>, <<" ", "\n">>, <<"H", "i">>, <<" ", "H", "i", " ">>},
    childTags      : SeqsUpTo({"STRONG", "BR", "DIV", "svg"}, MaxChildren),
    outerHTML      : {markup(n) : n \in MarkupLengths} ]

NoProbe ==
  [ attributeNames |-> {}, textContent |-> <<>>, childTags |-> <<>>,
    outerHTML |-> <<>> ]

NoInfo == [computed |-> FALSE]

\* Array.prototype.join
RECURSIVE join(_, _)
join(parts, sep) ==
  IF parts = <<>> THEN <<>>
  ELSE IF Len(parts) = 1 THEN parts[1]
  ELSE parts[1] \o sep \o join(Tail(parts), sep)

\* -------------------------------------------- ElementInfo of the page
\* getElementPath: the breadcrumb of element, each ancestor below the body
\* given by its tag, then its id or else the first two tokens of its class
\* attribute; the parts are joined with ' > '.
pathSelector(e, cl) ==
  <<toLowerCase(tagName[e])>>
    \o IF elementId[e] # "" THEN <<"#", elementId[e]>>
       ELSE IF cl[e] # <<>>
       THEN <<".">> \o join(SubSeq([i \in 1..Len(cl[e]) |-> <<cl[e][i]>>],
                                   1, IF Len(cl[e]) < 2 THEN Len(cl[e]) ELSE 2),
                            <<".">>)
       ELSE <<>>

RECURSIVE pathParts(_, _)
pathParts(current, cl) ==
  IF current = NULL \/ current = Body \/ current = Root THEN <<>>
  ELSE Append(pathParts(parentElement[current], cl), pathSelector(current, cl))

getElementPath(element, cl) == join(pathParts(element, cl), <<" > ">>)

\* createReadableSelector: tag, id and up to three classes that do not
\* start with 'inspector-'.
createReadableSelector(element, cl) ==
  LET classes == SelectSeq(cl[element], LAMBDA c : ~startsWithInspector(c))
  IN  <<toLowerCase(tagName[element])>>
        \o (IF elementId[element] # "" THEN <<"#", elementId[element]>>
            ELSE <<>>)
        \o (IF classes # <<>>
            THEN <<".">>
                   \o join(SubSeq([i \in 1..Len(classes) |-> <<classes[i]>>],
                                  1, IF Len(classes) < 3 THEN Len(classes)
                                     ELSE 3),
                           <<".">>)
            ELSE <<>>)

\* element.cloneNode(false).outerHTML of a page element, as tokens: the
\* opening tag with its id and class attributes and the closing tag.  (When
\* a snapshot is built the class list of the target is never empty.)
outerHTML(element, cl) ==
  <<"<", toLowerCase(tagName[element])>>
    \o (IF elementId[element] # ""
        THEN <<" id=\"", elementId[element], "\"">> ELSE <<>>)
    \o (IF cl[element] # <<>>
        THEN <<" class=\"">>
               \o join([i \in 1..Len(cl[element]) |-> <<cl[element][i]>>],
                       <<" ">>)
               \o <<"\"">>
        ELSE <<>>)
    \o <<">", "</", toLowerCase(tagName[element]), ">">>

\* The snapshot sent with hover and click messages; cl is the class list
\* function of the document at the moment the snapshot is built.
createElementInfo(element, cl) ==
  [ tagName   |-> tagName[element],
    className |-> SelectSeq(cl[element], LAMBDA c : ~startsWithInspector(c)),
    id        |-> elementId[element],
    displayText |-> createElementDisplayText(
                      [outerHTML |-> outerHTML(element, cl)]),
    xpath     |-> getElementXPath(element),
    elementPath |-> getElementPath(element, cl),
    selector  |-> createReadableSelector(element, cl) ]

\* ----------------------------------------------------------------- state
VARIABLES
  isInspectorActive,   \* let isInspectorActive
  currentHighlight,    \* let currentHighlight
  selectedElement,     \* let selectedElement
  inspectorStyle,      \* let inspectorStyle: NULL or the injected <style>
  headStyles,          \* number of inspector <style> elements in document.head
  documentListeners,   \* capturing listeners registered on the document
  windowListeners,     \* listeners registered on the window
  readyState,          \* document.readyState
  classList,           \* element -> its class attribute as a token sequence
  outbox,              \* messages posted to window.parent, not yet consumed
  readySent,           \* number of INSPECTOR_READY messages posted so far
  lastEvent,           \* the event the page dispatched in the last step
  probe,               \* an element handed to the snapshot helpers
  probeInfo,           \* what the snapshot helpers computed for probe
  unit,                \* a compilation unit handed to the instrumentation pass
  runs                 \* number of times the pass has visited the unit

inspectorVars == <<isInspectorActive, currentHighlight, selectedElement,
                   inspectorStyle>>

domVars == <<headStyles, documentListeners, windowListeners, readyState,
             classList>>

vars == <<isInspectorActive, currentHighlight, selectedElement,
          inspectorStyle, headStyles, documentListeners, windowListeners,
          readyState, classList, outbox, readySent, lastEvent,
          probe, probeInfo, unit, runs>>

\* The inspector's part of the state and the part of the two tool harnesses.
pageVars == <<isInspectorActive, currentHighlight, selectedElement,
              inspectorStyle, headStyles, documentListeners, windowListeners,
              readyState, classList, outbox, readySent, lastEvent>>

toolVars == <<probe, probeInfo, unit, runs>>

\* Faulty variant: the message overtakes the ones already posted.
postMessage_Overtake(m) ==
  /\ outbox' = <<m>> \o outbox
  /\ readySent' = IF m.type = "INSPECTOR_READY" THEN readySent + 1
                  ELSE readySent

\* parent.postMessage(m, '*'): messages are delivered in posting order.
postMessage(m) ==
  /\ outbox' = Append(outbox, m)
  /\ readySent' = IF m.type = "INSPECTOR_READY" THEN readySent + 1
                  ELSE readySent

\* The event object of a step: its kind, its target, the message data it
\* carries and what the handlers did to it, together with the inspector
\* state at the moment it was dispatched.
Event(kind, target, data, prevented, stopped) ==
  [ kind |-> kind, target |-> target, data |-> data,
    defaultPrevented |-> prevented, propagationStopped |-> stopped,
    wasActive |-> isInspectorActive,
    wasHighlight |-> currentHighlight,
    wasSelected |-> selectedElement ]

NoData == [isNull |-> TRUE, type |-> "undefined", active |-> FALSE]

NoEvent ==
  [ kind |-> "none", target |-> NULL, data |-> NoData,
    defaultPrevented |-> FALSE, propagationStopped |-> FALSE,
    wasActive |-> FALSE, wasHighlight |-> NULL, wasSelected |-> NULL ]

\* event.data of the messages the host may post.
MessageData ==
  { NoData,
    [isNull |-> FALSE, type |-> "INSPECTOR_ACTIVATE", active |-> TRUE],
    [isNull |-> FALSE, type |-> "INSPECTOR_ACTIVATE", active |-> FALSE],
    [isNull |-> FALSE, type |-> "INSPECTOR_PING", active |-> TRUE] }

READY == [type |-> "INSPECTOR_READY"]
LEAVE == [type |-> "INSPECTOR_LEAVE"]
HOVER(info) == [type |-> "INSPECTOR_HOVER", elementInfo |-> info]
CLICK(info) == [type |-> "INSPECTOR_CLICK", elementInfo |-> info]

\* --------------------------------------------------------------- handlers
\* Faulty variant: only a missing target is ignored.
ignoredTarget_NullOnly(target) == target = NULL

\* !target || target === document.body || target === document.documentElement
ignoredTarget(target) == target = NULL \/ target = Body \/ target = Root

\* Faulty variant: the highlight is added to the selected element too.
hoverClasses_AlwaysAdd(target) ==
  LET cl1 == IF currentHighlight # NULL /\ currentHighlight # selectedElement
             THEN [classList EXCEPT ![currentHighlight] =
                     classListRemove(@, HIGHLIGHT_CLASS)]
             ELSE classList
  IN  [cl1 EXCEPT ![target] = classListAdd(@, HIGHLIGHT_CLASS)]

\* Faulty variant: the previous highlight is left in place.
hoverClasses_KeepPrevious(target) ==
  IF target # selectedElement
  THEN [classList EXCEPT ![target] = classListAdd(@, HIGHLIGHT_CLASS)]
  ELSE classList

\* The class lists after handleMouseMove moved the highlight to target.
hoverClasses(target) ==
  LET cl1 == IF currentHighlight # NULL /\ currentHighlight # selectedElement
             THEN [classList EXCEPT ![currentHighlight] =
                     classListRemove(@, HIGHLIGHT_CLASS)]
             ELSE classList
  IN  IF target # selectedElement
      THEN [cl1 EXCEPT ![target] = classListAdd(@, HIGHLIGHT_CLASS)]
      ELSE cl1

\* Faulty variant: the same-element check is missing.
handleMouseMove_NoSameCheck(target) ==
  IF ~isInspectorActive THEN UNCHANGED <<inspectorVars, domVars, outbox, readySent>>
  ELSE IF ignoredTarget(target)
  THEN UNCHANGED <<inspectorVars, domVars, outbox, readySent>>
  ELSE
    /\ classList' = hoverClasses(target)
    /\ currentHighlight' = target
    /\ postMessage(HOVER(createElementInfo(target, hoverClasses(target))))
    /\ UNCHANGED <<isInspectorActive, selectedElement, inspectorStyle,
                   headStyles, documentListeners, windowListeners, readyState>>

\* handleMouseMove: highlight the element under the cursor.
handleMouseMove(target) ==
  IF ~isInspectorActive THEN UNCHANGED <<inspectorVars, domVars, outbox, readySent>>
  ELSE IF ignoredTarget(target)
  THEN UNCHANGED <<inspectorVars, domVars, outbox, readySent>>
  ELSE IF currentHighlight = target
  THEN UNCHANGED <<inspectorVars, domVars, outbox, readySent>>
  ELSE
    /\ classList' = hoverClasses(target)
    /\ currentHighlight' = target
    /\ postMessage(HOVER(createElementInfo(target, hoverClasses(target))))
    /\ UNCHANGED <<isInspectorActive, selectedElement, inspectorStyle,
                   headStyles, documentListeners, windowListeners, readyState>>

\* Faulty variant: the previous selection keeps its class.
clickClasses_KeepPrevious(target) ==
  LET cl2 == IF currentHighlight # NULL
             THEN [classList EXCEPT ![currentHighlight] =
                     classListRemove(@, HIGHLIGHT_CLASS)]
             ELSE classList
  IN  [cl2 EXCEPT ![target] = classListAdd(@, SELECTED_CLASS)]

\* Faulty variant: the hover highlight is left in place.
clickClasses_KeepHover(target) ==
  LET cl1 == IF selectedElement # NULL
             THEN [classList EXCEPT ![selectedElement] =
                     classListRemove(@, SELECTED_CLASS)]
             ELSE classList
  IN  [cl1 EXCEPT ![target] = classListAdd(@, SELECTED_CLASS)]

\* The class lists after handleClick moved the selection to target.
clickClasses(target) ==
  LET cl1 == IF selectedElement # NULL
             THEN [classList EXCEPT ![selectedElement] =
                     classListRemove(@, SELECTED_CLASS)]
             ELSE classList
      cl2 == IF currentHighlight # NULL
             THEN [cl1 EXCEPT ![currentHighlight] =
                     classListRemove(@, HIGHLIGHT_CLASS)]
             ELSE cl1
  IN  [cl2 EXCEPT ![target] = classListAdd(@, SELECTED_CLASS)]

\* Faulty variant: the default action is suppressed only after the target
\* check.
handleClick_PreventAfterCheck(target) ==
  IF ~isInspectorActive
  THEN /\ lastEvent' = Event("click", target, NoData, FALSE, FALSE)
       /\ UNCHANGED <<inspectorVars, domVars, outbox, readySent>>
  ELSE IF ignoredTarget(target)
  THEN /\ lastEvent' = Event("click", target, NoData, FALSE, FALSE)
       /\ UNCHANGED <<inspectorVars, domVars, outbox, readySent>>
  ELSE /\ lastEvent' = Event("click", target, NoData, TRUE, TRUE)
       /\ classList' = clickClasses(target)
       /\ selectedElement' = target
       /\ postMessage(CLICK(createElementInfo(target, clickClasses(target))))
       /\ UNCHANGED <<isInspectorActive, currentHighlight, inspectorStyle,
                      headStyles, documentListeners, windowListeners,
                      readyState>>

\* handleClick: select the element.
handleClick(target) ==
  IF ~isInspectorActive
  THEN /\ lastEvent' = Event("click", target, NoData, FALSE, FALSE)
       /\ UNCHANGED <<inspectorVars, domVars, outbox, readySent>>
  ELSE
    \* e.preventDefault(); e.stopPropagation()
    /\ lastEvent' = Event("click", target, NoData, TRUE, TRUE)
    /\ IF ignoredTarget(target)
       THEN UNCHANGED <<inspectorVars, domVars, outbox, readySent>>
       ELSE /\ classList' = clickClasses(target)
            /\ selectedElement' = target
            /\ postMessage(
                 CLICK(createElementInfo(target, clickClasses(target))))
            /\ UNCHANGED <<isInspectorActive, currentHighlight,
                           inspectorStyle, headStyles, documentListeners,
                           windowListeners, readyState>>

\* Faulty variant: nothing is sent when no element was hovered.
handleMouseLeave_OnlyWhenHovered ==
  IF ~isInspectorActive \/ currentHighlight = NULL
  THEN UNCHANGED <<inspectorVars, domVars, outbox, readySent>>
  ELSE
    /\ classList' =
         IF currentHighlight # selectedElement
         THEN [classList EXCEPT ![currentHighlight] =
                 classListRemove(@, HIGHLIGHT_CLASS)]
         ELSE classList
    /\ currentHighlight' = NULL
    /\ postMessage(LEAVE)
    /\ UNCHANGED <<isInspectorActive, selectedElement, inspectorStyle,
                   headStyles, documentListeners, windowListeners, readyState>>

\* handleMouseLeave: clear the hover state.
handleMouseLeave ==
  IF ~isInspectorActive THEN UNCHANGED <<inspectorVars, domVars, outbox, readySent>>
  ELSE
    /\ classList' =
         IF currentHighlight # NULL /\ currentHighlight # selectedElement
         THEN [classList EXCEPT ![currentHighlight] =
                 classListRemove(@, HIGHLIGHT_CLASS)]
         ELSE classList
    /\ currentHighlight' = NULL
    /\ postMessage(LEAVE)
    /\ UNCHANGED <<isInspectorActive, selectedElement, inspectorStyle,
                   headStyles, documentListeners, windowListeners, readyState>>

\* The three capturing listeners of the inspector.
InspectorListeners == {"mousemove", "click", "mouseleave"}

\* Faulty variant: the already-active check is missing.
activateInspector_NoGuard ==
  /\ isInspectorActive' = TRUE
  /\ inspectorStyle' = "style"
  /\ headStyles' = headStyles + 1
  /\ classList' = [classList EXCEPT ![Body] = classListAdd(@, ACTIVE_CLASS)]
  /\ documentListeners' =
       addEventListener(
         addEventListener(
           addEventListener(documentListeners, "mousemove"),
           "click"),
         "mouseleave")
  /\ UNCHANGED <<currentHighlight, selectedElement, windowListeners,
                 readyState, outbox, readySent>>

\* activateInspector: inject the CSS, mark the body, register the listeners.
activateInspector ==
  IF isInspectorActive THEN UNCHANGED <<inspectorVars, domVars, outbox, readySent>>
  ELSE
    /\ isInspectorActive' = TRUE
    \* document.head.appendChild(document.createElement('style'))
    /\ inspectorStyle' = "style"
    /\ headStyles' = headStyles + 1
    /\ classList' = [classList EXCEPT ![Body] = classListAdd(@, ACTIVE_CLASS)]
    /\ documentListeners' =
         addEventListener(
           addEventListener(
             addEventListener(documentListeners, "mousemove"),
             "click"),
           "mouseleave")
    /\ UNCHANGED <<currentHighlight, selectedElement, windowListeners,
                   readyState, outbox, readySent>>

\* Faulty variant: the hover highlight is removed only when the hovered
\* element is also the selected one.
deactivateClasses_KeepHover ==
  LET cl1 == [classList EXCEPT ![Body] = classListRemove(@, ACTIVE_CLASS)]
  IN  IF selectedElement # NULL
      THEN [cl1 EXCEPT ![selectedElement] =
              classListRemove(classListRemove(@, SELECTED_CLASS),
                              HIGHLIGHT_CLASS)]
      ELSE cl1

\* Faulty variant: the selection highlight is left in place.
deactivateClasses_KeepSelected ==
  LET cl1 == [classList EXCEPT ![Body] = classListRemove(@, ACTIVE_CLASS)]
  IN  IF currentHighlight # NULL
      THEN [cl1 EXCEPT ![currentHighlight] =
              classListRemove(@, HIGHLIGHT_CLASS)]
      ELSE cl1

\* The class lists after deactivateInspector removed the marker class and
\* the highlights.
deactivateClasses ==
  LET cl1 == [classList EXCEPT ![Body] = classListRemove(@, ACTIVE_CLASS)]
      cl2 == IF currentHighlight # NULL
             THEN [cl1 EXCEPT ![currentHighlight] =
                     classListRemove(@, HIGHLIGHT_CLASS)]
             ELSE cl1
  IN  IF selectedElement # NULL
      THEN [cl2 EXCEPT ![selectedElement] =
              classListRemove(@, SELECTED_CLASS)]
      ELSE cl2

\* Faulty variant: the selectedElement reference survives deactivation.
deactivateInspector_KeepSelection ==
  IF ~isInspectorActive THEN UNCHANGED <<inspectorVars, domVars, outbox, readySent>>
  ELSE
    /\ isInspectorActive' = FALSE
    /\ documentListeners' =
         removeEventListener(
           removeEventListener(
             removeEventListener(documentListeners, "mousemove"),
             "click"),
           "mouseleave")
    /\ classList' = deactivateClasses
    /\ currentHighlight' = NULL
    /\ headStyles' = IF inspectorStyle # NULL THEN headStyles - 1
                     ELSE headStyles
    /\ inspectorStyle' = NULL
    /\ UNCHANGED <<selectedElement, windowListeners, readyState, outbox, readySent>>

\* deactivateInspector: unregister the listeners and remove every artifact.
deactivateInspector ==
  IF ~isInspectorActive THEN UNCHANGED <<inspectorVars, domVars, outbox, readySent>>
  ELSE
    /\ isInspectorActive' = FALSE
    /\ documentListeners' =
         removeEventListener(
           removeEventListener(
             removeEventListener(documentListeners, "mousemove"),
             "click"),
           "mouseleave")
    /\ classList' = deactivateClasses
    /\ currentHighlight' = NULL
    /\ selectedElement' = NULL
    \* inspectorStyle.remove()
    /\ headStyles' = IF inspectorStyle # NULL THEN headStyles - 1
                     ELSE headStyles
    /\ inspectorStyle' = NULL
    /\ UNCHANGED <<windowListeners, readyState, outbox, readySent>>

\* Faulty variant: the message type is not looked at.
handleMessage_AnyType(data) ==
  IF data.active THEN activateInspector ELSE deactivateInspector

\* handleMessage: a message from the parent window.
handleMessage(data) ==
  IF data.type = "INSPECTOR_ACTIVATE"
  THEN IF data.active THEN activateInspector ELSE deactivateInspector
  ELSE UNCHANGED <<inspectorVars, domVars, outbox, readySent>>

\* Faulty variant: readiness is announced again when the listener is
\* already in place.
init_Reannounce ==
  /\ windowListeners' = addEventListener(windowListeners, "message")
  /\ outbox' = outbox \o <<READY, READY>>
  /\ readySent' = readySent + 2
  /\ UNCHANGED <<inspectorVars, headStyles, documentListeners, classList>>

\* Faulty variant: the listener is registered but readiness is never
\* announced.
init_Silent ==
  /\ windowListeners' = addEventListener(windowListeners, "message")
  /\ UNCHANGED <<inspectorVars, headStyles, documentListeners, classList,
                 outbox, readySent>>

\* init: listen for activation messages and tell the parent we are ready.
init ==
  /\ windowListeners' = addEventListener(windowListeners, "message")
  /\ postMessage(READY)
  /\ UNCHANGED <<inspectorVars, headStyles, documentListeners, classList>>

\* ------------------------------------------------ instrumentation pass
\* (plugins/babel-plugin-jsx-source-metadata.js)  Strings the pass builds
\* are sequences of tokens: names, numbers and punctuation characters.
Identifier(name) == [type |-> "Identifier", name |-> name]
ThisExpression == [type |-> "ThisExpression"]
NumericLiteral(value) == [type |-> "NumericLiteral", value |-> value]
StringLiteral(value) == [type |-> "StringLiteral", value |-> value]
ConditionalExpression == [type |-> "ConditionalExpression"]
CallExpression(callee) == [type |-> "CallExpression", callee |-> callee]

MemberExpression(object, property, computed) ==
  [ type |-> "MemberExpression", object |-> object, property |-> property,
    computed |-> computed ]

BinaryExpression(left, operator, right) ==
  [ type |-> "BinaryExpression", left |-> left, operator |-> operator,
    right |-> right ]

JSXText(value) == [type |-> "JSXText", value |-> value]

JSXExpressionContainer(expression) ==
  [type |-> "JSXExpressionContainer", expression |-> expression]

\* t.jSXAttribute(t.jSXIdentifier(name), t.stringLiteral(value))
JSXAttribute(name, value) ==
  [ type |-> "JSXAttribute",
    name |-> [type |-> "JSXIdentifier", name |-> name],
    value |-> StringLiteral(value) ]

\* process.cwd()
cwd == <<"/", "home", "/", "project">>

\* String.prototype.replace(pattern, by) with a string pattern: the first
\* occurrence only.
replaceFirst(str, pattern, by) ==
  LET n    == Len(pattern)
      hits == {i \in 1..(Len(str) - n + 1) : SubSeq(str, i, i + n - 1) = pattern}
  IN  IF hits = {} THEN str
      ELSE LET i == CHOOSE h \in hits : \A k \in hits : h <= k
           IN  SubSeq(str, 1, i - 1) \o by \o SubSeq(str, i + n, Len(str))

\* filename.replace(process.cwd() + '/', '')
relativePath(filename) == replaceFirst(filename, cwd \o <<"/">>, <<>>)

\* Faulty variant: the element is never recognised as instrumented.
hasSourceFile_Never(node) == FALSE

\* node.attributes.some(attr => isJSXAttribute(attr) && name is data-source-file)
hasSourceFile(node) ==
  \E i \in 1..Len(node.attributes) :
    /\ node.attributes[i].type = "JSXAttribute"
    /\ node.attributes[i].name.name = "data-source-file"

\* Faulty variant: column and line are swapped.
sourceLocValue_ColumnLine(loc) ==
  <<ToString(loc.start.column), ":", ToString(loc.start.line)>>

\* `${loc.start.line}:${loc.start.column}`
sourceLocValue(loc) ==
  <<ToString(loc.start.line), ":", ToString(loc.start.column)>>

\* The parts generateMemberExpressionPath collects, outermost object first.
RECURSIVE memberParts(_)
memberParts(current) ==
  IF current.type = "MemberExpression"
  THEN LET property == current.property
           part ==
             IF current.computed
             THEN IF property.type = "NumericLiteral"
                  THEN << <<"[", ToString(property.value), "]">> >>
                  ELSE IF property.type = "StringLiteral"
                  THEN << <<"[", "\"", property.value, "\"", "]">> >>
                  ELSE IF property.type = "Identifier"
                  THEN << <<"[", property.name, "]">> >>
                  ELSE <<>>
             ELSE IF property.type = "Identifier"
                  THEN << <<property.name>> >>
                  ELSE <<>>
       IN  memberParts(current.object) \o part
  ELSE IF current.type = "Identifier" THEN << <<current.name>> >>
  ELSE IF current.type = "ThisExpression" THEN << <<"this">> >>
  ELSE <<>>

\* generateMemberExpressionPath: parts.join('.')
generateMemberExpressionPath(node) == join(memberParts(node), <<".">>)

\* Faulty variant: the operator is not set off by spaces.
binarySource_NoSpaces(left, operator, right) == left \o <<operator>> \o right

\* `${left} ${expr.operator} ${right}`
binarySource(left, operator, right) ==
  left \o <<" ", operator, " ">> \o right

\* Faulty variant: every call gets the placeholder.
callSource_AlwaysFunction(callee) == <<"function">>

\* The source generateExpressionSource gives a call with this callee.
callSource(callee) ==
  IF callee.type = "Identifier" THEN <<callee.name, "(", ")">>
  ELSE IF callee.type = "MemberExpression"
  THEN generateMemberExpressionPath(callee) \o <<"(", ")">>
  ELSE <<"function">>

\* generateExpressionSource
RECURSIVE generateExpressionSource(_)
generateExpressionSource(expr) ==
  IF expr.type = "Identifier" THEN <<expr.name>>
  ELSE IF expr.type = "MemberExpression"
  THEN generateMemberExpressionPath(expr)
  ELSE IF expr.type = "BinaryExpression"
  THEN binarySource(generateExpressionSource(expr.left), expr.operator,
                    generateExpressionSource(expr.right))
  ELSE IF expr.type = "ConditionalExpression" THEN <<"conditional">>
  ELSE IF expr.type = "CallExpression" THEN callSource(expr.callee)
  ELSE <<"expression">>

\* Faulty variant: literal text gets a text source too.
textBindingOf_LiteralWithSource(child) ==
  IF child.type = "JSXText" /\ trim(child.value) # <<>>
  THEN <<JSXAttribute("data-text-type", <<"literal">>),
         JSXAttribute("data-text-source", trim(child.value))>>
  ELSE <<>>

\* The attributes one iteration of the loop over parent.children pushes for
\* child; the iteration breaks out of the loop exactly when it pushes some.
textBindingOf(child) ==
  IF child.type = "JSXText" /\ trim(child.value) # <<>>
  THEN <<JSXAttribute("data-text-type", <<"literal">>)>>
  ELSE IF child.type = "JSXExpressionContainer"
  THEN LET expr == child.expression
       IN  IF expr.type = "Identifier"
           THEN <<JSXAttribute("data-text-type", <<"variable">>),
                  JSXAttribute("data-text-source", <<expr.name>>)>>
           ELSE IF expr.type = "MemberExpression"
           THEN <<JSXAttribute("data-text-type", <<"property">>),
                  JSXAttribute("data-text-source",
                               generateMemberExpressionPath(expr))>>
           ELSE IF expr.type \in {"CallExpression", "ConditionalExpression",
                                  "BinaryExpression"}
           THEN <<JSXAttribute("data-text-type", <<"expression">>),
                  JSXAttribute("data-text-source",
                               generateExpressionSource(expr))>>
           ELSE <<>>
  ELSE <<>>

\* Faulty variant: the loop never breaks.
RECURSIVE textBindingAttributes_NoBreak(_)
textBindingAttributes_NoBreak(siblings) ==
  IF siblings = <<>> THEN <<>>
  ELSE textBindingOf(Head(siblings))
         \o textBindingAttributes_NoBreak(Tail(siblings))

\* The attributes the loop over parent.children pushes.
RECURSIVE textBindingAttributes(_)
textBindingAttributes(siblings) ==
  IF siblings = <<>> THEN <<>>
  ELSE IF textBindingOf(Head(siblings)) # <<>>
  THEN textBindingOf(Head(siblings))
  ELSE textBindingAttributes(Tail(siblings))

NoLoc == [missing |-> TRUE]

\* Faulty variant: a unit without a file name is instrumented all the same.
JSXOpeningElement_NoFilenameCheck(parent, filename) ==
  LET node == parent.openingElement
  IN  IF node.loc = NoLoc THEN node.attributes
      ELSE IF hasSourceFile(node) THEN node.attributes
      ELSE node.attributes
             \o <<JSXAttribute("data-source-file", relativePath(filename)),
                  JSXAttribute("data-source-loc", sourceLocValue(node.loc))>>
             \o textBindingAttributes(parent.children)

\* The visitor: the attributes of the opening element of parent once it has
\* been visited in a file called filename ('' or undefined: <<>>).
JSXOpeningElement(parent, filename) ==
  LET node == parent.openingElement
  IN  IF node.loc = NoLoc THEN node.attributes
      ELSE IF filename = <<>> THEN node.attributes
      ELSE IF hasSourceFile(node) THEN node.attributes
      ELSE node.attributes
             \o <<JSXAttribute("data-source-file", relativePath(filename)),
                  JSXAttribute("data-source-loc", sourceLocValue(node.loc))>>
             \o textBindingAttributes(parent.children)

\* The compilation units handed to the pass: one element each, given by
\* its opening tag (loc, attributes) and its children.
Objects ==
  { Identifier("user"), Identifier("items"), ThisExpression,
    CallExpression(Identifier("getUser")) }

Properties ==
  { [property |-> Identifier("name"), computed |-> FALSE],
    [property |-> Identifier("title"), computed |-> FALSE],
    [property |-> NumericLiteral(0), computed |-> TRUE],
    [property |-> StringLiteral("key"), computed |-> TRUE],
    [property |-> Identifier("i"), computed |-> TRUE],
    [property |-> BinaryExpression(Identifier("i"), "+", NumericLiteral(1)),
     computed |-> TRUE] }

RECURSIVE MemberExpressions(_)
MemberExpressions(depth) ==
  IF depth = 0 THEN Objects
  ELSE MemberExpressions(depth - 1)
         \cup {MemberExpression(o, p.property, p.computed) :
                 o \in MemberExpressions(depth - 1), p \in Properties}

OtherExpressions ==
  { Identifier("count"),
    CallExpression(MemberExpression(Identifier("user"), Identifier("getName"),
                                    FALSE)),
    CallExpression(CallExpression(Identifier("make"))),
    ConditionalExpression,
    BinaryExpression(
      BinaryExpression(Identifier("firstName"), "+", StringLiteral(" ")),
      "+", Identifier("lastName")),
    [type |-> "LogicalExpression"],
    [type |-> "TemplateLiteral"],
    [type |-> "JSXEmptyExpression"] }

Operands ==
  { Identifier("a"), Identifier("b"), StringLiteral(" "), ConditionalExpression,
    MemberExpression(Identifier("user"), Identifier("name"), FALSE),
    MemberExpression(Identifier("items"), NumericLiteral(0), TRUE),
    CallExpression(Identifier("getName")),
    BinaryExpression(Identifier("a"), "*", Identifier("b")) }

BinaryExpressions ==
  {BinaryExpression(l, op, r) : l \in Operands, op \in {"+"}, r \in Operands}

CallExpressions ==
  {CallExpression(c) : c \in MemberExpressions(1) \cup {ConditionalExpression}}

Expressions ==
  MemberExpressions(MaxPathDepth) \cup OtherExpressions
    \cup BinaryExpressions \cup CallExpressions

BlankText == JSXText(<<"\n", " ">>)

FirstChildren ==
  {JSXText(<<"Hello">>), JSXText(<<"\n", " ", "Click Me", "\n">>),
   [type |-> "JSXElement"]}
    \cup {JSXExpressionContainer(e) : e \in Expressions}

ChildLists ==
  {<<>>}
    \cup {lead \o <<c>> \o rest :
            lead \in {<<>>, <<BlankText>>},
            c \in FirstChildren,
            rest \in {<<>>, <<JSXText(<<"tail">>)>>,
                      <<JSXExpressionContainer(Identifier("later"))>>}}

AttributeLists ==
  { <<>>,
    <<[type |-> "JSXSpreadAttribute"], JSXAttribute("id", <<"main">>)>>,
    <<JSXAttribute("data-source-file", <<"src", "/", "Old.tsx">>)>> }

Locs == {NoLoc, [start |-> [line |-> 5, column |-> 2]]}

\* Paths of source files below the directory the build runs in.
RelPaths == {<<"src", "/", "App.tsx">>}

Filenames ==
  {<<>>, <<"/", "tmp", "/", "Probe.tsx">>}
    \cup {cwd \o <<"/">> \o rel : rel \in RelPaths}

JSXElements ==
  [ type           : {"JSXElement"},
    openingElement : [loc : Locs, attributes : AttributeLists],
    children       : ChildLists ]

Units ==
  {[filename |-> f, parsed |-> e, element |-> e] :
     f \in Filenames, e \in JSXElements}

NoUnit == [filename |-> <<>>]

\* ------------------------------------------------------------- the system
\* The state once the script has run: init() has been called when the
\* document was already parsed, and is a DOMContentLoaded listener otherwise.
PageInit ==
  /\ isInspectorActive = FALSE
  /\ currentHighlight = NULL
  /\ selectedElement = NULL
  /\ inspectorStyle = NULL
  /\ headStyles = 0
  /\ classList = pageClasses
  /\ lastEvent = NoEvent
  /\ readyState \in {"loading", "complete"}
  /\ IF readyState = "loading"
     THEN /\ documentListeners = {"DOMContentLoaded"}
          /\ windowListeners = {}
          /\ outbox = <<>>
          /\ readySent = 0
     ELSE /\ documentListeners = {}
          /\ windowListeners = {"message"}
          /\ outbox = <<READY>>
          /\ readySent = 1

Init ==
  /\ PageInit
  /\ probe = NoProbe
  /\ probeInfo = NoInfo
  /\ unit = NoUnit
  /\ runs = 0

\* The document finishes parsing.
DOMContentLoaded ==
  /\ UNCHANGED toolVars
  /\ readyState = "loading"
  /\ Len(outbox) < MaxInFlight
  /\ readyState' = "interactive"
  /\ lastEvent' = Event("DOMContentLoaded", NULL, NoData, FALSE, FALSE)
  /\ IF "DOMContentLoaded" \in documentListeners
     THEN init
     ELSE UNCHANGED <<inspectorVars, headStyles, documentListeners,
                      windowListeners, classList, outbox, readySent>>

\* The pointer moves over target.
MouseMove(target) ==
  /\ UNCHANGED toolVars
  /\ Len(outbox) < MaxInFlight
  /\ lastEvent' = Event("mousemove", target, NoData, FALSE, FALSE)
  /\ IF "mousemove" \in documentListeners
     THEN handleMouseMove(target)
     ELSE UNCHANGED <<inspectorVars, domVars, outbox, readySent>>

\* The user clicks on target.
Click(target) ==
  /\ UNCHANGED toolVars
  /\ Len(outbox) < MaxInFlight
  /\ IF "click" \in documentListeners
     THEN handleClick(target)
     ELSE /\ lastEvent' = Event("click", target, NoData, FALSE, FALSE)
          /\ UNCHANGED <<inspectorVars, domVars, outbox, readySent>>

\* The pointer leaves the document.
MouseLeave ==
  /\ UNCHANGED toolVars
  /\ Len(outbox) < MaxInFlight
  /\ lastEvent' = Event("mouseleave", NULL, NoData, FALSE, FALSE)
  /\ IF "mouseleave" \in documentListeners
     THEN handleMouseLeave
     ELSE UNCHANGED <<inspectorVars, domVars, outbox, readySent>>

\* The host posts a message to the page.
HostMessage(data) ==
  /\ UNCHANGED toolVars
  /\ lastEvent' = Event("message", NULL, data, FALSE, FALSE)
  /\ IF "message" \in windowListeners
     THEN handleMessage(data)
     ELSE UNCHANGED <<inspectorVars, domVars, outbox, readySent>>

\* The host consumes the oldest message the page posted.
HostReceive ==
  /\ UNCHANGED toolVars
  /\ outbox # <<>>
  /\ outbox' = Tail(outbox)
  /\ lastEvent' = NoEvent
  /\ UNCHANGED <<inspectorVars, domVars, readySent>>

Next ==
  \/ DOMContentLoaded
  \/ \E target \in Targets : MouseMove(target)
  \/ \E target \in Targets : Click(target)
  \/ MouseLeave
  \/ \E data \in MessageData : HostMessage(data)
  \/ HostReceive

Spec == Init /\ [][Next]_vars

\* createElementInfo computes the isTextEditable and displayText fields of
\* the snapshot of an element.
Snapshot ==
  /\ probeInfo = NoInfo
  /\ probeInfo' = [ computed       |-> TRUE,
                    isTextEditable |-> hasEditableText(probe),
                    displayText    |-> createElementDisplayText(probe) ]
  /\ UNCHANGED <<pageVars, probe, unit, runs>>

SnapshotInit ==
  /\ PageInit
  /\ readyState = "complete"
  /\ probe \in Probes
  /\ probeInfo = NoInfo
  /\ unit = NoUnit
  /\ runs = 0

SnapshotNext == Snapshot

SnapshotSpec == SnapshotInit /\ [][SnapshotNext]_vars

\* The build runs the pass over the unit: the visitor visits its element.
Instrument ==
  /\ runs < MaxRuns
  /\ unit' = [unit EXCEPT !.element.openingElement.attributes =
                            JSXOpeningElement(unit.element, unit.filename)]
  /\ runs' = runs + 1
  /\ UNCHANGED <<pageVars, probe, probeInfo>>

PassInit ==
  /\ PageInit
  /\ readyState = "complete"
  /\ probe = NoProbe
  /\ probeInfo = NoInfo
  /\ unit \in Units
  /\ runs = 0

PassNext == Instrument

PassSpec == PassInit /\ [][PassNext]_vars

\* ------------------------------------------------------------- properties
hasClass(cl, e, c) == c \in Range(cl[e])

\* The page's classes of an element that do not start with 'inspector-'.
unprefixedClasses(e) ==
  SelectSeq(pageClasses[e], LAMBDA c : ~startsWithInspector(c))

\* The step delivers INSPECTOR_ACTIVATE{active: true} to handleMessage.
ActivateCall ==
  /\ lastEvent'.kind = "message"
  /\ "message" \in windowListeners
  /\ lastEvent'.data.type = "INSPECTOR_ACTIVATE"
  /\ lastEvent'.data.active

\* The step delivers INSPECTOR_ACTIVATE{active: false} to handleMessage.
DeactivateCall ==
  /\ lastEvent'.kind = "message"
  /\ "message" \in windowListeners
  /\ lastEvent'.data.type = "INSPECTOR_ACTIVATE"
  /\ ~lastEvent'.data.active

\* The last step was a deactivate() call made while the inspector was active.
WasDeactivated ==
  /\ lastEvent.kind = "message"
  /\ lastEvent.data.type = "INSPECTOR_ACTIVATE"
  /\ ~lastEvent.data.active
  /\ lastEvent.wasActive
  /\ ~isInspectorActive

C2_InactiveLeavesNoArtifact ==
  ~isInspectorActive
  => /\ documentListeners \cap InspectorListeners = {}
     /\ headStyles = 0
     /\ inspectorStyle = NULL
     /\ ~hasClass(classList, Body, ACTIVE_CLASS)
     /\ \A e \in Elements : /\ ~hasClass(classList, e, HIGHLIGHT_CLASS)
                            /\ ~hasClass(classList, e, SELECTED_CLASS)
     /\ classList = pageClasses

C2_Witness ==
  /\ WasDeactivated
  /\ lastEvent.wasHighlight \in Elements
  /\ lastEvent.wasSelected \in Elements
  /\ lastEvent.wasHighlight # lastEvent.wasSelected

\* C3: after any activate() call the document has each of the three
\* listeners registered once and exactly one injected style sheet, an
\* activate() call made while active changes nothing, and a deactivate()
\* call made while inactive changes nothing.
C3_ActivationIdempotent ==
  [][ /\ ActivateCall
         => /\ isInspectorActive'
            /\ headStyles' = 1
            /\ documentListeners' \cap InspectorListeners = InspectorListeners
            /\ isInspectorActive
                 => UNCHANGED <<inspectorVars, domVars, outbox, readySent>>
      /\ (DeactivateCall /\ ~isInspectorActive)
         => UNCHANGED <<inspectorVars, domVars, outbox, readySent>> ]_vars

C3_Witness ==
  /\ lastEvent.kind = "message"
  /\ lastEvent.data.type = "INSPECTOR_ACTIVATE"
  /\ lastEvent.data.active
  /\ lastEvent.wasActive
  /\ isInspectorActive
  /\ headStyles = 1

\* C4: in every reachable state at most one element carries the
\* hover-highlight class and at most one carries the selection-highlight
\* class.
C4_AtMostOneOfEachHighlight ==
  /\ Cardinality({e \in Elements : hasClass(classList, e, HIGHLIGHT_CLASS)})
       <= 1
  /\ Cardinality({e \in Elements : hasClass(classList, e, SELECTED_CLASS)})
       <= 1

C4_Witness ==
  /\ lastEvent.kind = "click"
  /\ lastEvent.target \in Elements
  /\ lastEvent.wasSelected \in Elements \ {lastEvent.target}
  /\ hasClass(classList, lastEvent.target, SELECTED_CLASS)

\* C5: in every reachable state no element carries both the hover-highlight
\* class and the selection-highlight class; an element that is both hovered
\* and selected carries the selection-highlight class only.
C5_NeverBothHighlights ==
  /\ \A e \in Elements : ~ ( /\ hasClass(classList, e, HIGHLIGHT_CLASS)
                             /\ hasClass(classList, e, SELECTED_CLASS) )
  /\ (currentHighlight # NULL /\ currentHighlight = selectedElement)
     => /\ hasClass(classList, selectedElement, SELECTED_CLASS)
        /\ ~hasClass(classList, selectedElement, HIGHLIGHT_CLASS)

C5_Witness ==
  /\ lastEvent.kind = "mousemove"
  /\ lastEvent.wasHighlight # lastEvent.target
  /\ lastEvent.target = selectedElement
  /\ currentHighlight = selectedElement
  /\ selectedElement \in Elements

\* C6: while active, a pointer-move over an element that is not root/body
\* and is not the hovered element removes the hover-highlight class from the
\* previous hover target unless that is the selection, adds it to the target
\* unless the target is the selection, sets the hovered element to the
\* target and sends exactly one INSPECTOR_HOVER message with the target's
\* ElementInfo.
C6_PointerMoveMovesHighlight ==
  [][ \A t \in Elements \ {Root, Body} :
        ( /\ lastEvent'.kind = "mousemove"
          /\ lastEvent'.target = t
          /\ isInspectorActive
          /\ t # currentHighlight )
        => /\ (currentHighlight # NULL /\ currentHighlight # selectedElement)
                => ~hasClass(classList', currentHighlight, HIGHLIGHT_CLASS)
           /\ (t # selectedElement)
                => hasClass(classList', t, HIGHLIGHT_CLASS)
           /\ (t = selectedElement)
                => ~hasClass(classList', t, HIGHLIGHT_CLASS)
           /\ currentHighlight' = t
           /\ Len(outbox') = Len(outbox) + 1
           /\ SubSeq(outbox', 1, Len(outbox)) = outbox
           /\ LET m == outbox'[Len(outbox')]
              IN  /\ m.type = "INSPECTOR_HOVER"
                  /\ m.elementInfo.tagName = tagName[t]
                  /\ m.elementInfo.id = elementId[t]
                  /\ m.elementInfo.xpath = getElementXPath(t)
                  /\ m.elementInfo.className = unprefixedClasses(t) ]_vars

C6_Witness ==
  /\ lastEvent.kind = "mousemove"
  /\ lastEvent.wasActive
  /\ lastEvent.target \in Elements \ {Root, Body}
  /\ lastEvent.wasHighlight \in Elements \ {lastEvent.target}
  /\ lastEvent.wasSelected = lastEvent.target
  /\ currentHighlight = lastEvent.target
  /\ outbox # <<>>
  /\ outbox[Len(outbox)].type = "INSPECTOR_HOVER"

\* C7: while active, a pointer-move whose target is the already-hovered
\* element sends no message and leaves the hovered element, the selected
\* element and every class list unchanged.
C7_SameTargetMoveIsNoOp ==
  [][ ( /\ lastEvent'.kind = "mousemove"
        /\ isInspectorActive
        /\ lastEvent'.target \in Elements
        /\ lastEvent'.target = currentHighlight )
      => UNCHANGED <<inspectorVars, classList, outbox, readySent>> ]_vars

C7_Witness ==
  /\ lastEvent.kind = "mousemove"
  /\ lastEvent.wasActive
  /\ lastEvent.target \in Elements
  /\ lastEvent.target = lastEvent.wasHighlight
  /\ currentHighlight = lastEvent.target

\* C8: while active, a click on an element that is not root/body removes
\* the selection-highlight class from the previously selected element and
\* the hover-highlight class from the hovered element, applies the
\* selection-highlight class to the target, sets selectedElement to the
\* target and sends exactly one INSPECTOR_CLICK message with the target's
\* ElementInfo.
C8_ClickMovesSelection ==
  [][ \A t \in Elements \ {Root, Body} :
        ( /\ lastEvent'.kind = "click"
          /\ lastEvent'.target = t
          /\ isInspectorActive )
        => /\ (selectedElement # NULL /\ selectedElement # t)
                => ~hasClass(classList', selectedElement, SELECTED_CLASS)
           /\ (currentHighlight # NULL)
                => ~hasClass(classList', currentHighlight, HIGHLIGHT_CLASS)
           /\ hasClass(classList', t, SELECTED_CLASS)
           /\ selectedElement' = t
           /\ Len(outbox') = Len(outbox) + 1
           /\ SubSeq(outbox', 1, Len(outbox)) = outbox
           /\ LET m == outbox'[Len(outbox')]
              IN  /\ m.type = "INSPECTOR_CLICK"
                  /\ m.elementInfo.tagName = tagName[t]
                  /\ m.elementInfo.id = elementId[t]
                  /\ m.elementInfo.xpath = getElementXPath(t)
                  /\ m.elementInfo.className = unprefixedClasses(t) ]_vars

C8_Witness ==
  /\ lastEvent.kind = "click"
  /\ lastEvent.wasActive
  /\ lastEvent.target \in Elements \ {Root, Body}
  /\ lastEvent.wasSelected \in Elements \ {lastEvent.target}
  /\ lastEvent.wasHighlight = lastEvent.target
  /\ selectedElement = lastEvent.target
  /\ outbox # <<>>
  /\ outbox[Len(outbox)].type = "INSPECTOR_CLICK"

\* C9: every click delivered while the inspector is active, whatever its
\* target, has its default action prevented and its propagation stopped;
\* a click delivered while inactive has neither.
C9_ClickSuppressedIffActive ==
  lastEvent.kind = "click"
  => /\ lastEvent.defaultPrevented = lastEvent.wasActive
     /\ lastEvent.propagationStopped = lastEvent.wasActive

C9_Witness ==
  /\ lastEvent.kind = "click"
  /\ lastEvent.wasActive
  /\ lastEvent.target \in {Root, Body}
  /\ lastEvent.defaultPrevented
  /\ lastEvent.propagationStopped

\* C10: while active, a pointer-move or click whose target is the page root
\* or the body leaves the hovered element, the selected element and every
\* class list unchanged and sends no message.
C10_RootAndBodyIgnored ==
  [][ ( /\ lastEvent'.kind \in {"mousemove", "click"}
        /\ lastEvent'.target \in {Root, Body}
        /\ isInspectorActive )
      => UNCHANGED <<inspectorVars, classList, outbox, readySent>> ]_vars

C10_Witness ==
  /\ lastEvent.kind \in {"mousemove", "click"}
  /\ lastEvent.target \in {Root, Body}
  /\ lastEvent.wasActive
  /\ lastEvent.wasHighlight \in Elements
  /\ currentHighlight = lastEvent.wasHighlight

\* C11: while active, a pointer-leave removes the hover-highlight class from
\* the hovered element unless it is the selection, sets the hovered element
\* to null, sends exactly one INSPECTOR_LEAVE message (also when nothing was
\* hovered) and leaves selectedElement and the selection-highlight class
\* unchanged.
C11_PointerLeaveClearsHover ==
  [][ (lastEvent'.kind = "mouseleave" /\ isInspectorActive)
      => /\ (currentHighlight # NULL /\ currentHighlight # selectedElement)
              => ~hasClass(classList', currentHighlight, HIGHLIGHT_CLASS)
         /\ currentHighlight' = NULL
         /\ outbox' = Append(outbox, [type |-> "INSPECTOR_LEAVE"])
         /\ selectedElement' = selectedElement
         /\ \A e \in Elements :
              hasClass(classList', e, SELECTED_CLASS)
                <=> hasClass(classList, e, SELECTED_CLASS) ]_vars

C11_Witness ==
  /\ lastEvent.kind = "mouseleave"
  /\ lastEvent.wasActive
  /\ lastEvent.wasHighlight \in Elements
  /\ lastEvent.wasSelected \in Elements \ {lastEvent.wasHighlight}
  /\ currentHighlight = NULL
  /\ selectedElement = lastEvent.wasSelected
  /\ outbox # <<>>
  /\ outbox[Len(outbox)].type = "INSPECTOR_LEAVE"

\* The message type a pointer event of the given kind produces.
messageTypeOf(kind) ==
  CASE kind = "mousemove"  -> "INSPECTOR_HOVER"
    [] kind = "click"      -> "INSPECTOR_CLICK"
    [] kind = "mouseleave" -> "INSPECTOR_LEAVE"
    [] OTHER               -> "none"

\* C12: outbound messages are emitted in the order of the events that caused
\* them: a pointer event leaves the posted messages as they are or puts
\* exactly one message, of the type of that event, behind all the messages
\* of earlier events, and the host takes the messages out oldest first.
C12_MessagesInEventOrder ==
  [][ /\ lastEvent'.kind \in {"mousemove", "click", "mouseleave"}
         => \/ outbox' = outbox
            \/ /\ Len(outbox') = Len(outbox) + 1
               /\ SubSeq(outbox', 1, Len(outbox)) = outbox
               /\ outbox'[Len(outbox')].type = messageTypeOf(lastEvent'.kind)
      /\ lastEvent'.kind = "message" => outbox' = outbox
      /\ lastEvent'.kind = "none"
         => (outbox # <<>> /\ outbox' = Tail(outbox)) ]_vars

C12_Witness ==
  /\ Len(outbox) = 2
  /\ outbox[1].type = "INSPECTOR_HOVER"
  /\ outbox[2].type = "INSPECTOR_CLICK"
  /\ lastEvent.kind = "click"
  /\ lastEvent.wasActive

\* C13: INSPECTOR_READY is sent exactly once per page, at agent
\* initialization: it has been sent once as soon as the message listener is
\* in place, not before, and no later event sends it again.
C13_ReadySentOnce ==
  /\ readySent <= 1
  /\ readySent = 1 <=> "message" \in windowListeners
  /\ readyState # "loading" => readySent = 1
  /\ readySent = 0 => outbox = <<>>

C13_Witness ==
  /\ readySent = 1
  /\ readyState = "interactive"
  /\ isInspectorActive
  /\ selectedElement \in Elements
  /\ lastEvent.kind = "message"
  /\ lastEvent.wasActive

\* C14: an inbound message whose type is not INSPECTOR_ACTIVATE, a message
\* without data included, is ignored: the inspector state, the listeners,
\* the injected style and all classes are unchanged and nothing is sent.
C14_OtherMessagesIgnored ==
  [][ ( /\ lastEvent'.kind = "message"
        /\ lastEvent'.data.type # "INSPECTOR_ACTIVATE" )
      => UNCHANGED <<inspectorVars, domVars, outbox, readySent>> ]_vars

C14_Witness ==
  /\ lastEvent.kind = "message"
  /\ lastEvent.data.isNull
  /\ lastEvent.wasActive
  /\ lastEvent.wasSelected \in Elements
  /\ isInspectorActive
  /\ selectedElement = lastEvent.wasSelected

\* The element an ElementInfo describes.
elementOf(info) == CHOOSE e \in Elements : getElementXPath(e) = info.xpath

\* C17: the className of every ElementInfo sent contains none of
\* the inspector's own classes, although the handler has just applied the
\* hover or selection class to the element, and keeps all the other classes
\* of the element in their order.
C17_ClassNameKeepsAllOtherClasses ==
  \A i \in 1..Len(outbox) :
    outbox[i].type \in {"INSPECTOR_HOVER", "INSPECTOR_CLICK"}
    => LET info == outbox[i].elementInfo
       IN  /\ Range(info.className)
                \cap {ACTIVE_CLASS, HIGHLIGHT_CLASS, SELECTED_CLASS} = {}
           /\ info.className = pageClasses[elementOf(info)]

\* C15: isTextEditable is true exactly when the element has the
\* provenance-file attribute under either naming convention, its trimmed
\* text content is non-empty and every immediate child element has an
\* inline tag; so a disallowed child or a missing attribute makes it false.
C15_EditableIffSourceTextAndInlineChildren ==
  probeInfo.computed =>
    ( probeInfo.isTextEditable
      <=> /\ \/ "data-source-file" \in probe.attributeNames
             \/ "data-astro-source-file" \in probe.attributeNames
          /\ \E i \in 1..Len(probe.textContent) :
               probe.textContent[i] \notin Whitespace
          /\ \A i \in 1..Len(probe.childTags) :
               toLowerCase(probe.childTags[i])
                 \in {"span", "strong", "em", "b", "i", "u", "a", "br"} )

\* An element with the alternate attribute only, text and a <strong> child
\* has been found editable.
C15_Witness ==
  /\ probeInfo.computed
  /\ probeInfo.isTextEditable
  /\ probe.attributeNames = {"data-astro-source-file"}
  /\ probe.childTags = <<"STRONG">>

\* C16: displayText is at most 200 characters long, whatever the length of
\* the element's own markup.
C16_DisplayTextAtMost200 ==
  probeInfo.computed => Len(probeInfo.displayText) <= 200

\* ---- instrumentation pass
attributesOf(element) == element.openingElement.attributes

hasAttribute(attributes, name) ==
  \E i \in 1..Len(attributes) :
    /\ attributes[i].type = "JSXAttribute"
    /\ attributes[i].name.name = name

\* The value of the first attribute called name.
attributeValue(attributes, name) ==
  LET hits == {i \in 1..Len(attributes) :
                 /\ attributes[i].type = "JSXAttribute"
                 /\ attributes[i].name.name = name}
  IN  attributes[CHOOSE i \in hits : \A k \in hits : i <= k].value.value

\* C18: a second run of the pass over the same tree adds no attribute and
\* changes no attribute value: the attribute list stays the one the first
\* run produced.
C18_SecondRunChangesNothing ==
  [][runs >= 1 => attributesOf(unit'.element) = attributesOf(unit.element)]_vars

\* The pass ran twice over an element the first run instrumented.
C18_Witness ==
  /\ runs = 2
  /\ ~hasAttribute(attributesOf(unit.parsed), "data-source-file")
  /\ hasAttribute(attributesOf(unit.element), "data-source-file")

\* The access path as written in the source: property names follow a '.',
\* index segments follow the preceding segment directly.
RECURSIVE asWritten(_)
asWritten(expr) ==
  IF expr.type = "MemberExpression"
  THEN IF expr.computed
       THEN asWritten(expr.object)
              \o IF expr.property.type = "NumericLiteral"
                 THEN <<"[", ToString(expr.property.value), "]">>
                 ELSE IF expr.property.type = "StringLiteral"
                 THEN <<"[", "\"", expr.property.value, "\"", "]">>
                 ELSE <<"[", expr.property.name, "]">>
       ELSE asWritten(expr.object) \o <<".", expr.property.name>>
  ELSE IF expr.type = "ThisExpression" THEN <<"this">>
  ELSE <<expr.name>>

\* Member accesses made only of the segments the path notation covers.
RECURSIVE isAccessPath(_)
isAccessPath(expr) ==
  IF expr.type = "MemberExpression"
  THEN /\ isAccessPath(expr.object)
       /\ IF expr.computed
          THEN expr.property.type
                 \in {"NumericLiteral", "StringLiteral", "Identifier"}
          ELSE expr.property.type = "Identifier"
  ELSE expr.type \in {"Identifier", "ThisExpression"}

\* The element's first child is an embedded member access and the pass
\* has instrumented the element.
memberAccessInstrumented ==
  /\ runs >= 1
  /\ unit.filename # <<>>
  /\ unit.parsed.openingElement.loc # NoLoc
  /\ ~hasAttribute(attributesOf(unit.parsed), "data-source-file")
  /\ unit.parsed.children # <<>>
  /\ unit.parsed.children[1].type = "JSXExpressionContainer"
  /\ unit.parsed.children[1].expression.type = "MemberExpression"
  /\ isAccessPath(unit.parsed.children[1].expression)

\* C19: for an element whose first qualifying child is an embedded member
\* access the pass emits kind property and the access path as written,
\* index segments attached to the preceding segment with no separator.
C19_MemberPathAsWritten ==
  memberAccessInstrumented =>
    /\ attributeValue(attributesOf(unit.element), "data-text-type")
         = <<"property">>
    /\ attributeValue(attributesOf(unit.element), "data-text-source")
         = asWritten(unit.parsed.children[1].expression)

\* The first child that is not whitespace-only text is non-whitespace text.
firstChildIsLiteral(element) ==
  LET kids == element.children
      isText(i) == /\ i <= Len(kids)
                   /\ kids[i].type = "JSXText"
                   /\ \E k \in 1..Len(kids[i].value) :
                        kids[i].value[k] \notin Whitespace
  IN  \/ isText(1)
      \/ /\ Len(kids) >= 2
         /\ kids[1] = BlankText
         /\ isText(2)

instrumented ==
  /\ runs >= 1
  /\ unit.filename # <<>>
  /\ unit.parsed.openingElement.loc # NoLoc
  /\ ~hasAttribute(attributesOf(unit.parsed), "data-source-file")

\* The first child of the element that is not whitespace-only text.
firstChild(element) ==
  IF Len(element.children) >= 2 /\ element.children[1] = BlankText
  THEN element.children[2]
  ELSE element.children[1]

\* The first such child is an embedded expression of one of these types.
firstChildEmbeds(types) ==
  /\ unit.parsed.children # <<>>
  /\ firstChild(unit.parsed).type = "JSXExpressionContainer"
  /\ firstChild(unit.parsed).expression.type \in types

textType == attributeValue(attributesOf(unit.element), "data-text-type")
textSource == attributeValue(attributesOf(unit.element), "data-text-source")

\* The reconstruction rules as the claim lists them: a call operand falls
\* under "anything else".
RECURSIVE operandAsListed(_)
operandAsListed(expr) ==
  IF expr.type = "Identifier" THEN <<expr.name>>
  ELSE IF expr.type = "MemberExpression"
  THEN generateMemberExpressionPath(expr)
  ELSE IF expr.type = "BinaryExpression"
  THEN operandAsListed(expr.left) \o <<" ", expr.operator, " ">>
         \o operandAsListed(expr.right)
  ELSE IF expr.type = "ConditionalExpression" THEN <<"conditional">>
  ELSE <<"expression">>

\* The rules with the one for calls: name(), path() or "function".
RECURSIVE operandWithCalls(_)
operandWithCalls(expr) ==
  IF expr.type = "Identifier" THEN <<expr.name>>
  ELSE IF expr.type = "MemberExpression"
  THEN generateMemberExpressionPath(expr)
  ELSE IF expr.type = "BinaryExpression"
  THEN operandWithCalls(expr.left) \o <<" ", expr.operator, " ">>
         \o operandWithCalls(expr.right)
  ELSE IF expr.type = "ConditionalExpression" THEN <<"conditional">>
  ELSE IF expr.type = "CallExpression"
  THEN IF expr.callee.type = "Identifier"
       THEN <<expr.callee.name, "(", ")">>
       ELSE IF expr.callee.type = "MemberExpression"
       THEN generateMemberExpressionPath(expr.callee) \o <<"(", ")">>
       ELSE <<"function">>
  ELSE <<"expression">>

attributeCount(attributes, name) ==
  Cardinality({i \in 1..Len(attributes) :
                 /\ attributes[i].type = "JSXAttribute"
                 /\ attributes[i].name.name = name})

\* C22: the first text-bearing child alone determines the text binding:
\* an element gets at most one text-binding-kind and at most one
\* text-binding-expression, and literal text followed by an embedded
\* expression is classified literal.
C22_FirstTextBearingChildDecides ==
  /\ attributeCount(attributesOf(unit.element), "data-text-type") <= 1
  /\ attributeCount(attributesOf(unit.element), "data-text-source") <= 1
  /\ (instrumented /\ firstChildIsLiteral(unit.parsed))
     => /\ textType = <<"literal">>
        /\ ~hasAttribute(attributesOf(unit.element), "data-text-source")
  /\ (instrumented /\ firstChildEmbeds({"Identifier"}))
     => /\ textType = <<"variable">>
        /\ textSource = <<firstChild(unit.parsed).expression.name>>

\* Literal text followed by an embedded identifier has been instrumented.
C22_Witness ==
  /\ instrumented
  /\ unit.parsed.children
       = <<JSXText(<<"Hello">>), JSXExpressionContainer(Identifier("later"))>>
  /\ textType = <<"literal">>

\* C23: an opening tag without location info, or in a unit without a file
\* path, is left unmodified by the pass.
C23_NoLocOrNoFilenameUnmodified ==
  ( /\ runs >= 1
    /\ \/ unit.parsed.openingElement.loc = NoLoc
       \/ unit.filename = <<>> )
  => attributesOf(unit.element) = attributesOf(unit.parsed)

\* The pass ran over an element with location info and text in a unit
\* without a file path.
C23_Witness ==
  /\ runs >= 1
  /\ unit.filename = <<>>
  /\ unit.parsed.openingElement.loc # NoLoc
  /\ unit.parsed.children = <<JSXText(<<"Hello">>)>>
  /\ attributesOf(unit.element) = attributesOf(unit.parsed)

C25_SourcePresentIffBoundKind ==
  LET attributes == attributesOf(unit.element)
  IN  /\ hasAttribute(attributes, "data-text-source")
         <=> /\ hasAttribute(attributes, "data-text-type")
             /\ textType \in {<<"variable">>, <<"property">>, <<"expression">>}
      /\ hasAttribute(attributes, "data-text-type")
         => hasAttribute(attributes, "data-source-file")

\* An element with literal text has been instrumented: kind, no source.
C25_Witness ==
  /\ instrumented
  /\ firstChildIsLiteral(unit.parsed)
  /\ hasAttribute(attributesOf(unit.element), "data-text-type")
  /\ ~hasAttribute(attributesOf(unit.element), "data-text-source")

\* C26: the scan stops at the first child that is non-whitespace text or an
\* embedded expression of whatever kind: when that expression is none of
\* identifier, member access, call, conditional, binary, no text-binding
\* attribute is emitted, whatever follows.
C26_ScanStopsAtAnyExpression ==
  ( /\ instrumented
    /\ unit.parsed.children # <<>>
    /\ firstChild(unit.parsed).type = "JSXExpressionContainer"
    /\ firstChild(unit.parsed).expression.type
         \notin {"Identifier", "MemberExpression", "CallExpression",
                 "ConditionalExpression", "BinaryExpression"} )
  => /\ ~hasAttribute(attributesOf(unit.element), "data-text-type")
     /\ ~hasAttribute(attributesOf(unit.element), "data-text-source")

\* ---- inspector agent, continued
\* C27: in every reachable state an element carries the selection-highlight
\* class if and only if it is selectedElement, and carries the
\* hover-highlight class only if it is the hovered element and is not
\* selectedElement.
C27_HighlightClassesFollowReferences ==
  \A e \in Elements :
    /\ hasClass(classList, e, SELECTED_CLASS) <=> e = selectedElement
    /\ hasClass(classList, e, HIGHLIGHT_CLASS)
         => (e = currentHighlight /\ e # selectedElement)

\* One element is selected and another one is hovered and highlighted.
C27_Witness ==
  /\ selectedElement \in Elements
  /\ currentHighlight \in Elements
  /\ currentHighlight # selectedElement
  /\ hasClass(classList, selectedElement, SELECTED_CLASS)
  /\ hasClass(classList, currentHighlight, HIGHLIGHT_CLASS)

\* C28: while active, a hovered element that is not the selected element
\* carries the hover-highlight class, also after a click on an element
\* other than the hovered one.
C28_HoveredElementIsHighlighted ==
  ( /\ isInspectorActive
    /\ currentHighlight # NULL
    /\ currentHighlight # selectedElement )
  => hasClass(classList, currentHighlight, HIGHLIGHT_CLASS)

\* C29: INSPECTOR_HOVER, INSPECTOR_CLICK and INSPECTOR_LEAVE are sent only
\* by a step taken while the inspector is active and after INSPECTOR_READY
\* was sent, and a pointer event handled while inactive changes no
\* inspector state, no class and no listener and sends nothing.
C29_PointerMessagesOnlyWhileActive ==
  [][ /\ ( /\ Len(outbox') > Len(outbox)
           /\ outbox'[Len(outbox')].type
                \in {"INSPECTOR_HOVER", "INSPECTOR_CLICK", "INSPECTOR_LEAVE"} )
         => (isInspectorActive /\ readySent >= 1)
      /\ ( /\ lastEvent'.kind \in {"mousemove", "click", "mouseleave"}
           /\ ~isInspectorActive )
         => UNCHANGED <<inspectorVars, domVars, outbox, readySent>> ]_vars

\* A click arrived after a deactivation: the hover message sent while the
\* inspector was active is still on its way and nothing was sent for the
\* click.
C29_Witness ==
  /\ lastEvent.kind = "click"
  /\ lastEvent.target \in Elements \ {Root, Body}
  /\ ~lastEvent.wasActive
  /\ ~isInspectorActive
  /\ readySent = 1
  /\ outbox # <<>>
  /\ outbox[Len(outbox)].type = "INSPECTOR_HOVER"

\* The inspector's own class names.
INSPECTOR_CLASSES == {ACTIVE_CLASS, HIGHLIGHT_CLASS, SELECTED_CLASS}

\* C30: no field of an ElementInfo sent with INSPECTOR_HOVER or
\* INSPECTOR_CLICK exposes an inspector-internal class name: className, the
\* readable selector, the breadcrumb path and the serialized markup are all
\* free of the hover-highlight and selection-highlight classes.
C30_NoFieldExposesInspectorClass ==
  \A i \in 1..Len(outbox) :
    outbox[i].type \in {"INSPECTOR_HOVER", "INSPECTOR_CLICK"}
    => LET info == outbox[i].elementInfo
       IN  /\ Range(info.className) \cap INSPECTOR_CLASSES = {}
           /\ Range(info.selector) \cap INSPECTOR_CLASSES = {}
           /\ Range(info.elementPath) \cap INSPECTOR_CLASSES = {}
           /\ Range(info.displayText) \cap INSPECTOR_CLASSES = {}

====
